---- MODULE Spec2Model ----
(***************************************************************************)
(* Persistence (MongoDatabase, mongo_persistence.py) and result delivery   *)
(* (MessageDelivery, message_delivery.py) of the MCP scheduler.            *)
(*                                                                         *)
(* The two MongoDB collections are bags of documents: a collection keeps   *)
(* no order of its own and nothing but the code's filters keeps ids apart. *)
(* Timestamps are integers counting microseconds (the resolution of a      *)
(* Python datetime); a BSON date keeps whole milliseconds only.  A Python  *)
(* Optional is None (the empty tuple) or Some(x) (a one-element tuple).    *)
(* Identifiers (task ids, execution ids, users) are opaque; numbers stand  *)
(* for the id strings.                                                     *)
(***************************************************************************)
EXTENDS Integers, Sequences, FiniteSets, Bags, TLC

VARIABLES
    tasks_collection,       \* db.schedulertasks: bag of task documents
    executions_collection,  \* db.schedulerexecutions: bag of execution documents
    connected,              \* the MongoDB server answers the client's commands
    saved,                  \* history: task id -> the Task of the last save_task that
                            \* returned, None after a delete_task that removed it
    lastOp,                 \* the last store call and what reached its caller
    repeat,                 \* history: the last call was a save_* of the very record
                            \* the returned save_* just before it had passed
    id_index,               \* the unique index on "id" exists in both collections
    writers,                \* callers inside a save_task whose replace_one is with
                            \* the server: position, record and outcome of each
    client_closes,          \* times self.client.close() has been performed
    n_pc,                   \* notifier: position inside the running send_* call
    n_call,                 \* notifier: the running call and its addressing arguments
    n_requests,             \* notifier: POST requests issued by the running call
    n_logs,                 \* notifier: log records emitted by the running call
    n_response,             \* notifier: status of the response being handled
    n_result                \* notifier: how the call ended (kind "return" / "raise")

storeVars == <<tasks_collection, executions_collection, connected, saved, lastOp, repeat>>
lifeVars == <<id_index, writers, client_closes>>
notifierVars == <<n_pc, n_call, n_requests, n_logs, n_response, n_result>>
vars == <<tasks_collection, executions_collection, connected, saved, lastOp, repeat,
          id_index, writers, client_closes,
          n_pc, n_call, n_requests, n_logs, n_response, n_result>>

-----------------------------------------------------------------------------
(* Bounds of the model *)

NumTaskIds == 2     \* task ids 1..NumTaskIds
NumExecIds == 2     \* execution ids 1..NumExecIds
MaxLimit == 2       \* limit arguments 0..MaxLimit
MaxCloseCalls == 2  \* close() is called at most this often

(* BSON dates count milliseconds; Python datetimes count microseconds *)
MicrosPerMilli == 1000

None == <<>>
Some(x) == <<x>>

TaskIds == 1..NumTaskIds
Callers == {"a", "b"}
ExecIds == 1..NumExecIds
Users == {"u1", "u2"}
Limits == 0..MaxLimit

\* get_executions(task_id, limit=10)
DefaultLimit == 10

-----------------------------------------------------------------------------
(* Entity model: the enumerated fields and their stored string values *)

TaskTypeValue ==
    [COMMAND |-> "command", API |-> "api", AI |-> "ai-prompt", REMINDER |-> "reminder"]

TaskStatusValue ==
    [PENDING |-> "pending", RUNNING |-> "running", COMPLETED |-> "completed",
     FAILED |-> "failed", CANCELLED |-> "cancelled"]

\* TaskType(value) / TaskStatus(value): the member carrying the value; an unknown
\* value raises ValueError
TaskType(value) ==
    IF \E m \in DOMAIN TaskTypeValue : TaskTypeValue[m] = value
    THEN CHOOSE m \in DOMAIN TaskTypeValue : TaskTypeValue[m] = value
    ELSE "ValueError"

TaskStatus(value) ==
    IF \E m \in DOMAIN TaskStatusValue : TaskStatusValue[m] = value
    THEN CHOOSE m \in DOMAIN TaskStatusValue : TaskStatusValue[m] = value
    ELSE "ValueError"

-----------------------------------------------------------------------------
(* The Task and TaskExecution objects callers pass in.  Every field of the *)
(* entity is present; the payload fields follow the type, the run fields   *)
(* follow whether the task has run.  A task that has run carries the       *)
(* microsecond timestamp of that run.                                      *)

CreatedAt == MicrosPerMilli
RanAt == 2 * MicrosPerMilli + 500
DueAt == 3 * MicrosPerMilli

MkTask(id, type, user, ran) ==
    [id |-> id,
     name |-> "task",
     schedule |-> "* * * * *",
     type |-> type,
     command |-> IF type = "COMMAND" THEN Some("echo") ELSE None,
     api_url |-> IF type = "API" THEN Some("http://api") ELSE None,
     api_method |-> IF type = "API" THEN Some("POST") ELSE None,
     api_headers |-> IF type = "API" THEN Some("{h}") ELSE None,
     api_body |-> IF type = "API" THEN Some("{b}") ELSE None,
     prompt |-> IF type = "AI" THEN Some("ask") ELSE None,
     description |-> IF ran THEN Some("desc") ELSE None,
     enabled |-> ~ran,
     do_only_once |-> ran,
     last_run |-> IF ran THEN Some(RanAt) ELSE None,
     next_run |-> IF ran THEN None ELSE Some(DueAt),
     status |-> IF ran THEN "COMPLETED" ELSE "PENDING",
     created_at |-> CreatedAt,
     updated_at |-> IF ran THEN RanAt ELSE CreatedAt,
     reminder_title |-> IF type = "REMINDER" THEN Some("title") ELSE None,
     reminder_message |-> IF type = "REMINDER" THEN Some("msg") ELSE None,
     user |-> Some(user),
     conversation_id |-> IF ran THEN Some("conv") ELSE None]

InputTypes == {"API", "REMINDER"}

Tasks == {MkTask(id, type, user, ran) :
            id \in TaskIds, type \in InputTypes, user \in Users, ran \in BOOLEAN}

StartTimes == {MicrosPerMilli, 2 * MicrosPerMilli}

\* a run that is still going (status running, end_time null) or one that ended
\* 1.5 ms after it started
MkExecution(id, task_id, user, start, done) ==
    [id |-> id,
     task_id |-> task_id,
     start_time |-> start,
     end_time |-> IF done THEN Some(start + MicrosPerMilli + 500) ELSE None,
     status |-> IF done THEN "COMPLETED" ELSE "RUNNING",
     output |-> IF done THEN Some("out") ELSE None,
     error |-> None,
     user |-> Some(user)]

\* whose run it is: <<task_id, user>>; user u1 owns runs of two tasks, task 2 has
\* runs of two users
Owners == {<<1, "u1">>, <<2, "u1">>, <<2, "u2">>}

Executions == {MkExecution(id, o[1], o[2], start, done) :
                 id \in ExecIds, o \in Owners, start \in StartTimes, done \in BOOLEAN}

-----------------------------------------------------------------------------
(* Documents: what save_task / save_execution hand to the driver, what the *)
(* driver stores, and what _doc_to_task / _doc_to_execution build from it  *)

\* replace_one encodes the document as BSON.  A datetime becomes a BSON UTC
\* datetime, a 64-bit count of milliseconds: the microseconds below a whole
\* millisecond are dropped, and find / find_one decode what was stored.  Strings,
\* booleans and nulls are stored as they are.
BsonDate(t) == t - (t % MicrosPerMilli)

BsonOptDate(o) == IF o = None THEN None ELSE Some(BsonDate(o[1]))

\* task_doc of save_task
TaskDoc(task) ==
    [id |-> task.id,
     name |-> task.name,
     schedule |-> task.schedule,
     type |-> TaskTypeValue[task.type],
     command |-> task.command,
     api_url |-> task.api_url,
     api_method |-> task.api_method,
     api_headers |-> task.api_headers,
     api_body |-> task.api_body,
     prompt |-> task.prompt,
     description |-> task.description,
     enabled |-> task.enabled,
     do_only_once |-> task.do_only_once,
     last_run |-> task.last_run,
     next_run |-> task.next_run,
     status |-> TaskStatusValue[task.status],
     created_at |-> task.created_at,
     updated_at |-> task.updated_at,
     reminder_title |-> task.reminder_title,
     reminder_message |-> task.reminder_message,
     user |-> task.user,
     conversation_id |-> task.conversation_id]

\* execution_doc of save_execution
ExecutionDoc(execution) ==
    [id |-> execution.id,
     task_id |-> execution.task_id,
     start_time |-> execution.start_time,
     end_time |-> execution.end_time,
     status |-> TaskStatusValue[execution.status],
     output |-> execution.output,
     error |-> execution.error,
     user |-> execution.user]

\* the document as the collection holds it
StoredTaskDoc(doc) ==
    [doc EXCEPT !.last_run = BsonOptDate(@), !.next_run = BsonOptDate(@),
                !.created_at = BsonDate(@), !.updated_at = BsonDate(@)]

StoredExecutionDoc(doc) ==
    [doc EXCEPT !.start_time = BsonDate(@), !.end_time = BsonOptDate(@)]

\* doc.get(key, default)
DocGet(doc, key, default) == IF key \in DOMAIN doc THEN doc[key] ELSE default

\* _doc_to_task raises (KeyError, ValueError) instead of returning a Task
DocToTaskRaises(doc) ==
    \/ {"id", "name", "schedule", "type", "created_at", "updated_at"} \ DOMAIN doc # {}
    \/ TaskType(doc.type) = "ValueError"
    \/ TaskStatus(DocGet(doc, "status", TaskStatusValue.PENDING)) = "ValueError"

DocToTask(doc) ==
    [id |-> doc.id,
     name |-> doc.name,
     schedule |-> doc.schedule,
     type |-> TaskType(doc.type),
     command |-> DocGet(doc, "command", None),
     api_url |-> DocGet(doc, "api_url", None),
     api_method |-> DocGet(doc, "api_method", None),
     api_headers |-> DocGet(doc, "api_headers", None),
     api_body |-> DocGet(doc, "api_body", None),
     prompt |-> DocGet(doc, "prompt", None),
     description |-> DocGet(doc, "description", None),
     enabled |-> DocGet(doc, "enabled", TRUE),
     do_only_once |-> DocGet(doc, "do_only_once", TRUE),
     last_run |-> DocGet(doc, "last_run", None),
     next_run |-> DocGet(doc, "next_run", None),
     status |-> TaskStatus(DocGet(doc, "status", TaskStatusValue.PENDING)),
     created_at |-> doc.created_at,
     updated_at |-> doc.updated_at,
     reminder_title |-> DocGet(doc, "reminder_title", None),
     reminder_message |-> DocGet(doc, "reminder_message", None),
     user |-> DocGet(doc, "user", None),
     conversation_id |-> DocGet(doc, "conversation_id", None)]

DocToExecutionRaises(doc) ==
    \/ {"id", "task_id", "start_time", "status"} \ DOMAIN doc # {}
    \/ TaskStatus(doc.status) = "ValueError"

DocToExecution(doc) ==
    [id |-> doc.id,
     task_id |-> doc.task_id,
     start_time |-> doc.start_time,
     end_time |-> DocGet(doc, "end_time", None),
     status |-> TaskStatus(doc.status),
     output |-> DocGet(doc, "output", None),
     error |-> DocGet(doc, "error", None),
     user |-> DocGet(doc, "user", None)]

-----------------------------------------------------------------------------
(* The driver's collection operations *)

One(doc) == SetToBag({doc})

\* the documents of a collection that carry the value in the field
Matching(coll, key, value) == {d \in BagToSet(coll) : DocGet(d, key, None) = value}

MatchingBag(coll, key, value) ==
    [d \in Matching(coll, key, value) |-> CopiesIn(d, coll)]

\* an insert where the replace should be: the document is added whatever is stored
InsertAlways(coll, id, doc) == {coll (+) One(doc)}

\* replace_one({"id": id}, doc, upsert=True): the collections it can leave.  It
\* replaces one matching document (the first the server meets) and inserts when
\* none matches.
ReplaceOneUpsert(coll, id, doc) ==
    IF Matching(coll, "id", id) = {}
    THEN {coll (+) One(doc)}
    ELSE {(coll (-) One(d)) (+) One(doc) : d \in Matching(coll, "id", id)}

\* delete_one with the filter lost: any document goes
DeleteOneAny(coll, id) ==
    IF BagToSet(coll) = {}
    THEN {<<coll, 0>>}
    ELSE {<<coll (-) One(d), 1>> : d \in BagToSet(coll)}

\* delete_one({"id": id}): the pairs <<collection left, deleted_count>>
DeleteOne(coll, id) ==
    IF Matching(coll, "id", id) = {}
    THEN {<<coll, 0>>}
    ELSE {<<coll (-) One(d), 1>> : d \in Matching(coll, "id", id)}

\* list(cursor) over a bag of documents: every order the server may return them in
Listings(bag) ==
    {s \in [1..BagCardinality(bag) -> BagToSet(bag)] :
        \A d \in BagToSet(bag) :
            Cardinality({i \in DOMAIN s : s[i] = d}) = CopiesIn(d, bag)}

\* .sort("start_time", -1): the listings with start_time descending
SortedByStartTimeDesc(bag) ==
    {s \in Listings(bag) :
        \A i, j \in DOMAIN s : i < j => s[i].start_time >= s[j].start_time}

\* .limit(n): the cursor returns the first n documents; a limit of 0 is no limit
CursorLimit(s, n) == IF n = 0 THEN s ELSE SubSeq(s, 1, IF Len(s) < n THEN Len(s) ELSE n)

\* find(filter).sort("start_time", -1).limit(limit), as lists of documents
FindSortedLimited(coll, key, value, limit) ==
    {CursorLimit(s, limit) : s \in SortedByStartTimeDesc(MatchingBag(coll, key, value))}

\* the documents of a collection under an id, and how many there are
StoredWithId(coll, id) == {d \in BagToSet(coll) : d.id = id}

CopiesWithId(coll, id) == BagCardinality([d \in StoredWithId(coll, id) |-> CopiesIn(d, coll)])

MapSeq(s, Op(_)) == [i \in DOMAIN s |-> Op(s[i])]

AnyRaises(s, Raises(_)) == \E i \in DOMAIN s : Raises(s[i])

-----------------------------------------------------------------------------
(* Store operations.  lastOp records the call, its argument and what the   *)
(* caller got: outcome "return" with the returned value, or "raise"; error *)
(* names the exception the call's except clause caught, "none" without.    *)

\* the try block ran to its return
Returned(op, arg, ret) ==
    [op |-> op, arg |-> arg, outcome |-> "return", ret |-> ret, error |-> "none"]

\* except Exception: logger.error(...); return <default>
Swallowed(op, arg, ret, exc) ==
    [op |-> op, arg |-> arg, outcome |-> "return", ret |-> ret, error |-> exc]

\* except Exception: logger.error(...); raise
Raised(op, arg, exc) ==
    [op |-> op, arg |-> arg, outcome |-> "raise", ret |-> None, error |-> exc]

\* save_task: replace_one with upsert; any exception is logged and re-raised
SaveTask(task) ==
    /\ IF connected
       THEN /\ tasks_collection' \in
                   ReplaceOneUpsert(tasks_collection, task.id, StoredTaskDoc(TaskDoc(task)))
            /\ saved' = [saved EXCEPT ![task.id] = Some(task)]
            /\ lastOp' = Returned("save_task", task.id, None)
       ELSE /\ lastOp' = Raised("save_task", task.id, "ConnectionFailure")
            /\ UNCHANGED <<tasks_collection, saved>>
    /\ repeat' = /\ lastOp.op = "save_task" /\ lastOp.outcome = "return"
                  /\ lastOp.arg = task.id
                  /\ saved[task.id] = Some(task)
    /\ UNCHANGED <<executions_collection, connected>>
    /\ UNCHANGED lifeVars
    /\ UNCHANGED notifierVars

\* get_task: find_one, None when nothing matches; any exception is logged and
\* None returned
GetTaskResult(task_id) ==
    IF ~connected THEN {Swallowed("get_task", task_id, None, "ConnectionFailure")}
    ELSE IF Matching(tasks_collection, "id", task_id) = {}
    THEN {Returned("get_task", task_id, None)}
    ELSE {IF DocToTaskRaises(d)
          THEN Swallowed("get_task", task_id, None, "ValueError")
          ELSE Returned("get_task", task_id, Some(DocToTask(d))) :
            d \in Matching(tasks_collection, "id", task_id)}

GetTask(task_id) ==
    /\ lastOp' \in GetTaskResult(task_id)
    /\ repeat' = FALSE
    /\ UNCHANGED <<tasks_collection, executions_collection, connected, saved>>
    /\ UNCHANGED lifeVars
    /\ UNCHANGED notifierVars

\* get_all_tasks: list(find()); any exception is logged and [] returned
GetAllTasksResult ==
    IF ~connected THEN {Swallowed("get_all_tasks", None, <<>>, "ConnectionFailure")}
    ELSE {IF AnyRaises(s, DocToTaskRaises)
          THEN Swallowed("get_all_tasks", None, <<>>, "ValueError")
          ELSE Returned("get_all_tasks", None, MapSeq(s, DocToTask)) :
            s \in Listings(tasks_collection)}

GetAllTasks ==
    /\ lastOp' \in GetAllTasksResult
    /\ repeat' = FALSE
    /\ UNCHANGED <<tasks_collection, executions_collection, connected, saved>>
    /\ UNCHANGED lifeVars
    /\ UNCHANGED notifierVars

\* get_tasks_by_user: list(find({"user": user_id})); exceptions as get_all_tasks
GetTasksByUserResult(user_id) ==
    IF ~connected THEN {Swallowed("get_tasks_by_user", user_id, <<>>, "ConnectionFailure")}
    ELSE {IF AnyRaises(s, DocToTaskRaises)
          THEN Swallowed("get_tasks_by_user", user_id, <<>>, "ValueError")
          ELSE Returned("get_tasks_by_user", user_id, MapSeq(s, DocToTask)) :
            s \in Listings(MatchingBag(tasks_collection, "user", Some(user_id)))}

GetTasksByUser(user_id) ==
    /\ lastOp' \in GetTasksByUserResult(user_id)
    /\ repeat' = FALSE
    /\ UNCHANGED <<tasks_collection, executions_collection, connected, saved>>
    /\ UNCHANGED lifeVars
    /\ UNCHANGED notifierVars

\* delete_task: delete_one, True when a document was deleted; any exception is
\* logged and False returned
DeleteTask(task_id) ==
    /\ IF connected
       THEN \E r \in DeleteOne(tasks_collection, task_id) :
              /\ tasks_collection' = r[1]
              /\ saved' = IF r[2] > 0 THEN [saved EXCEPT ![task_id] = None] ELSE saved
              /\ lastOp' = Returned("delete_task", task_id, r[2] > 0)
       ELSE /\ lastOp' = Swallowed("delete_task", task_id, FALSE, "ConnectionFailure")
            /\ UNCHANGED <<tasks_collection, saved>>
    /\ repeat' = FALSE
    /\ UNCHANGED <<executions_collection, connected>>
    /\ UNCHANGED lifeVars
    /\ UNCHANGED notifierVars

\* save_execution: replace_one with upsert; any exception is logged and re-raised
SaveExecution(execution) ==
    /\ IF connected
       THEN /\ executions_collection' \in
                   ReplaceOneUpsert(executions_collection, execution.id,
                                    StoredExecutionDoc(ExecutionDoc(execution)))
            /\ lastOp' = Returned("save_execution", execution.id, None)
       ELSE /\ lastOp' = Raised("save_execution", execution.id, "ConnectionFailure")
            /\ UNCHANGED executions_collection
    /\ repeat' = /\ lastOp.op = "save_execution" /\ lastOp.outcome = "return"
                  /\ lastOp.arg = execution.id
                  /\ StoredWithId(executions_collection, execution.id)
                        = {StoredExecutionDoc(ExecutionDoc(execution))}
    /\ UNCHANGED <<tasks_collection, connected, saved>>
    /\ UNCHANGED lifeVars
    /\ UNCHANGED notifierVars

\* get_executions: find({"task_id": task_id}).sort("start_time", -1).limit(limit);
\* any exception is logged and [] returned
GetExecutionsResult(task_id, limit) ==
    IF ~connected THEN {Swallowed("get_executions", <<task_id, limit>>, <<>>, "ConnectionFailure")}
    ELSE {IF AnyRaises(s, DocToExecutionRaises)
          THEN Swallowed("get_executions", <<task_id, limit>>, <<>>, "ValueError")
          ELSE Returned("get_executions", <<task_id, limit>>, MapSeq(s, DocToExecution)) :
            s \in FindSortedLimited(executions_collection, "task_id", task_id, limit)}

GetExecutions(task_id, limit) ==
    /\ lastOp' \in GetExecutionsResult(task_id, limit)
    /\ repeat' = FALSE
    /\ UNCHANGED <<tasks_collection, executions_collection, connected, saved>>
    /\ UNCHANGED lifeVars
    /\ UNCHANGED notifierVars

\* get_executions_by_user: the same query on the user field
GetExecutionsByUserResult(user_id, limit) ==
    IF ~connected THEN {Swallowed("get_executions_by_user", <<user_id, limit>>, <<>>, "ConnectionFailure")}
    ELSE {IF AnyRaises(s, DocToExecutionRaises)
          THEN Swallowed("get_executions_by_user", <<user_id, limit>>, <<>>, "ValueError")
          ELSE Returned("get_executions_by_user", <<user_id, limit>>,
                        MapSeq(s, DocToExecution)) :
            s \in FindSortedLimited(executions_collection, "user", Some(user_id), limit)}

GetExecutionsByUser(user_id, limit) ==
    /\ lastOp' \in GetExecutionsByUserResult(user_id, limit)
    /\ repeat' = FALSE
    /\ UNCHANGED <<tasks_collection, executions_collection, connected, saved>>
    /\ UNCHANGED lifeVars
    /\ UNCHANGED notifierVars

\* the server becomes unreachable / reachable again; the client object stays
Disconnect ==
    /\ connected
    /\ connected' = FALSE
    /\ UNCHANGED <<tasks_collection, executions_collection, saved, lastOp, repeat>>
    /\ UNCHANGED lifeVars
    /\ UNCHANGED notifierVars

Reconnect ==
    /\ ~connected
    /\ connected' = TRUE
    /\ UNCHANGED <<tasks_collection, executions_collection, saved, lastOp, repeat>>
    /\ UNCHANGED lifeVars
    /\ UNCHANGED notifierVars

\* save_task called by several callers at once.  The object takes no lock and the
\* driver's client is shared, so their replace_one commands are with the server
\* together.  The server replaces a matching document in one step; an upsert that
\* matched nothing inserts in a later step, and what happens when a document of
\* the id has arrived in between is up to the unique index _create_indexes asked
\* for (a failure to create it is only logged as a warning).

\* a caller outside save_task; inside, the record it passed, the error that ends
\* the call and the callers whose calls ran at the same time
NoWriter == [pc |-> "idle", task |-> None, error |-> "none", overlaps |-> {}]

InProgress(c) == writers[c].pc \in {"sent", "insert"}

\* save_task entered: task_doc built, replace_one sent
CallSaveTask(c, task) ==
    /\ writers[c].pc = "idle"
    /\ LET others == {o \in Callers \ {c} : InProgress(o)}
       IN writers' =
            [o \in Callers |->
                IF o = c
                THEN IF connected
                     THEN [pc |-> "sent", task |-> Some(task), error |-> "none",
                           overlaps |-> others]
                     ELSE [pc |-> "raised", task |-> Some(task),
                           error |-> "ConnectionFailure", overlaps |-> others]
                ELSE IF o \in others
                     THEN [writers[o] EXCEPT !.overlaps = @ \cup {c}]
                     ELSE writers[o]]
    /\ UNCHANGED storeVars
    /\ UNCHANGED <<id_index, client_closes>>
    /\ UNCHANGED notifierVars

\* the server evaluates the filter {"id": task.id}: a matching document is
\* replaced at once, without one the upsert goes on to insert
ServerFilter(c) ==
    /\ writers[c].pc = "sent"
    /\ LET task == writers[c].task[1]
       IN IF Matching(tasks_collection, "id", task.id) # {}
          THEN /\ tasks_collection' \in
                      ReplaceOneUpsert(tasks_collection, task.id, StoredTaskDoc(TaskDoc(task)))
               /\ writers' = [writers EXCEPT ![c].pc = "returned"]
          ELSE /\ writers' = [writers EXCEPT ![c].pc = "insert"]
               /\ UNCHANGED tasks_collection
    /\ UNCHANGED <<executions_collection, connected, saved, lastOp, repeat>>
    /\ UNCHANGED <<id_index, client_closes>>
    /\ UNCHANGED notifierVars

\* the upsert inserts.  With the unique index a document of the id that arrived in
\* between is a duplicate key: the server runs the upsert again as a replacement,
\* or (servers that do not retry) reports DuplicateKeyError.  Without the index
\* the document is inserted beside the other.
ServerInsert(c) ==
    /\ writers[c].pc = "insert"
    /\ LET task == writers[c].task[1]
           doc == StoredTaskDoc(TaskDoc(task))
       IN IF id_index /\ Matching(tasks_collection, "id", task.id) # {}
          THEN \/ /\ tasks_collection' \in ReplaceOneUpsert(tasks_collection, task.id, doc)
                  /\ writers' = [writers EXCEPT ![c].pc = "returned"]
               \/ /\ writers' = [writers EXCEPT ![c].pc = "raised",
                                                 ![c].error = "DuplicateKeyError"]
                  /\ UNCHANGED tasks_collection
          ELSE /\ tasks_collection' = tasks_collection (+) One(doc)
               /\ writers' = [writers EXCEPT ![c].pc = "returned"]
    /\ UNCHANGED <<executions_collection, connected, saved, lastOp, repeat>>
    /\ UNCHANGED <<id_index, client_closes>>
    /\ UNCHANGED notifierVars

\* save_task leaves: it returns None, or its except clause logs and re-raises
ReturnSaveTask(c) ==
    /\ writers[c].pc \in {"returned", "raised"}
    /\ LET task == writers[c].task[1]
       IN IF writers[c].pc = "returned"
          THEN /\ lastOp' = Returned("save_task", task.id, None)
               /\ saved' = [saved EXCEPT ![task.id] = Some(task)]
          ELSE /\ lastOp' = Raised("save_task", task.id, writers[c].error)
               /\ UNCHANGED saved
    /\ writers' = [o \in Callers |->
                      IF o = c THEN NoWriter
                      ELSE [writers[o] EXCEPT !.overlaps = @ \ {c}]]
    /\ repeat' = FALSE
    /\ UNCHANGED <<tasks_collection, executions_collection, connected>>
    /\ UNCHANGED <<id_index, client_closes>>
    /\ UNCHANGED notifierVars

\* close(): self.client is set by _connect and never reset, so every call performs
\* self.client.close().  A closed MongoClient opens again on its next command: the
\* other operations go on as before.
Close ==
    /\ client_closes < MaxCloseCalls
    /\ client_closes' = client_closes + 1
    /\ lastOp' = Returned("close", None, None)
    /\ repeat' = FALSE
    /\ UNCHANGED <<tasks_collection, executions_collection, connected, saved>>
    /\ UNCHANGED <<id_index, writers>>
    /\ UNCHANGED notifierVars

-----------------------------------------------------------------------------
(* Result notifier: one send_task_result / send_task_notification call,    *)
(* step by step.  The recipient and the network choose the outcome of the  *)
(* POST: a response with some status, the 10 s total timeout, or a         *)
(* transport error; reading the body of an error response can fail too.    *)

HTTP_OK == 200

Statuses == {HTTP_OK, 201, 204, 404, 500}

SendOps == {"send_task_result", "send_task_notification"}

\* user_id / conversation_id arguments: absent, empty, or a real id
AddressArgs == {None, Some(""), Some("id")}

\* Python's "not x" for an Optional[str]
Falsy(x) == x = None \/ x = Some("")

\* the check with "and" for "or"
NotAddressableBoth(call) == Falsy(call.user_id) /\ Falsy(call.conversation_id)

\* if not user_id or not conversation_id
NotAddressable(call) == Falsy(call.user_id) \/ Falsy(call.conversation_id)

Exceptions == {"TimeoutError", "ClientConnectorError", "ClientPayloadError"}

\* send_task_notification catching transport errors only: a timeout propagates
ExceptClauseClientErrorOnly(op, exc) ==
    IF op = "send_task_result" /\ exc = "TimeoutError" THEN "except asyncio.TimeoutError"
    ELSE IF op = "send_task_notification" /\ exc = "TimeoutError" THEN "none"
    ELSE "except Exception"

\* the except clause an exception raised inside the try block reaches:
\* send_task_result has "except asyncio.TimeoutError" before "except Exception",
\* send_task_notification has "except Exception" only; "none" would propagate
ExceptClause(op, exc) ==
    IF op = "send_task_result" /\ exc = "TimeoutError" THEN "except asyncio.TimeoutError"
    ELSE "except Exception"

\* any 2xx status taken for success
IsSuccessStatusAny2xx(status) == status >= 200 /\ status < 300

\* response.status == 200
IsSuccessStatus(status) == status = HTTP_OK

NoCall ==
    [op |-> "none", user_id |-> None, conversation_id |-> None, task_id |-> 0,
     success |-> FALSE]
\* how a call ended: the value returned or the exception raised to the caller, and
\* the path taken ("unaddressed", "status", or the exception met inside the try)
NoResult == [kind |-> "none", value |-> FALSE, cause |-> "none"]
ReturnOf(b, cause) == [kind |-> "return", value |-> b, cause |-> cause]
RaiseOf(exc) == [kind |-> "raise", value |-> FALSE, cause |-> exc]

\* an exception inside the try block: logged by its except clause, False returned
Handle(op, exc) ==
    IF ExceptClause(op, exc) = "none"
    THEN /\ n_result' = RaiseOf(exc)
         /\ n_logs' = n_logs
    ELSE /\ n_result' = ReturnOf(FALSE, exc)
         /\ n_logs' = Append(n_logs, "error")

\* entry of send_task_result / send_task_notification: the addressing check
Send(op, user_id, conversation_id, task_id, success) ==
    /\ n_pc = "idle"
    /\ n_call' = [op |-> op, user_id |-> user_id, conversation_id |-> conversation_id,
                  task_id |-> task_id, success |-> success]
    /\ n_requests' = 0
    /\ n_response' = None
    /\ IF NotAddressable(n_call')
       THEN /\ n_pc' = "done"
            /\ n_result' = ReturnOf(FALSE, "unaddressed")
            /\ n_logs' = IF op = "send_task_result" THEN <<"warning">> ELSE <<>>
       ELSE /\ n_pc' = "post"
            /\ n_result' = NoResult
            /\ n_logs' = <<>>
    /\ UNCHANGED storeVars
    /\ UNCHANGED lifeVars

\* session.post(...) answered with a status
PostAnswered(status) ==
    /\ n_pc = "post"
    /\ n_requests' = n_requests + 1
    /\ n_response' = Some(status)
    /\ IF IsSuccessStatus(status)
       THEN /\ n_pc' = "done"
            /\ n_result' = ReturnOf(TRUE, "status")
            /\ n_logs' = Append(n_logs, "info")
       ELSE /\ n_pc' = "read_body"
            /\ UNCHANGED <<n_result, n_logs>>
    /\ UNCHANGED <<n_call>>
    /\ UNCHANGED storeVars
    /\ UNCHANGED lifeVars

\* a second attempt after a first timeout
PostFailsRetrying(exc) ==
    /\ n_pc = "post"
    /\ n_requests' = n_requests + 1
    /\ IF exc = "TimeoutError" /\ n_requests = 0
       THEN UNCHANGED <<n_pc, n_result, n_logs>>
       ELSE /\ n_pc' = "done"
            /\ Handle(n_call.op, exc)
    /\ UNCHANGED <<n_call, n_response>>
    /\ UNCHANGED storeVars
    /\ UNCHANGED lifeVars

\* session.post(...) raises: timeout expired, connection refused, ...
PostFails(exc) ==
    /\ n_pc = "post"
    /\ n_requests' = n_requests + 1
    /\ n_pc' = "done"
    /\ Handle(n_call.op, exc)
    /\ UNCHANGED <<n_call, n_response>>
    /\ UNCHANGED storeVars
    /\ UNCHANGED lifeVars

\* await response.text() returns: the status and body are logged, False returned
ReadBody ==
    /\ n_pc = "read_body"
    /\ n_pc' = "done"
    /\ n_result' = ReturnOf(FALSE, "status")
    /\ n_logs' = Append(n_logs, "error")
    /\ UNCHANGED <<n_call, n_requests, n_response>>
    /\ UNCHANGED storeVars
    /\ UNCHANGED lifeVars

\* await response.text() raises: timeout or transport error mid-response
ReadBodyFails(exc) ==
    /\ n_pc = "read_body"
    /\ n_pc' = "done"
    /\ Handle(n_call.op, exc)
    /\ UNCHANGED <<n_call, n_requests, n_response>>
    /\ UNCHANGED storeVars
    /\ UNCHANGED lifeVars

\* the caller has the outcome; the notifier keeps no state between calls
Finish ==
    /\ n_pc = "done"
    /\ n_pc' = "idle"
    /\ n_call' = NoCall
    /\ n_requests' = 0
    /\ n_logs' = <<>>
    /\ n_response' = None
    /\ n_result' = NoResult
    /\ UNCHANGED storeVars
    /\ UNCHANGED lifeVars

-----------------------------------------------------------------------------
(* Specifications.  The task store, the execution store and the notifier   *)
(* share no state (the scheduler composes them), so each has its own       *)
(* specification over the same variables; what a specification does not    *)
(* drive stays as Init left it.                                            *)

NotifierIdle ==
    /\ n_pc = "idle"
    /\ n_call = NoCall
    /\ n_requests = 0
    /\ n_logs = <<>>
    /\ n_response = None
    /\ n_result = NoResult

NoOp == Returned("none", None, None)

\* no save_task is with the server and close() has not been called; where calls
\* are made one at a time the unique index plays no part and is taken as made
LifeStart ==
    /\ id_index = TRUE
    /\ writers = [c \in Callers |-> NoWriter]
    /\ client_closes = 0

\* documents earlier runs of the scheduler left in the database
PriorExecutions ==
    {EmptyBag,
     One(StoredExecutionDoc(ExecutionDoc(MkExecution(1, 1, "u1", MicrosPerMilli, TRUE))))}

\* the task store: the object is constructed (_connect pinged the server) over a
\* database without tasks
Init ==
    /\ tasks_collection = EmptyBag
    /\ executions_collection \in PriorExecutions
    /\ connected = TRUE
    /\ saved = [id \in TaskIds |-> None]
    /\ lastOp = NoOp
    /\ repeat = FALSE
    /\ LifeStart
    /\ NotifierIdle

Next ==
    \/ \E task \in Tasks : SaveTask(task)
    \/ \E id \in TaskIds : GetTask(id)
    \/ GetAllTasks
    \/ \E u \in Users : GetTasksByUser(u)
    \/ \E id \in TaskIds : DeleteTask(id)
    \/ Disconnect
    \/ Reconnect

Spec == Init /\ [][Next]_vars

\* the execution store
InitExec ==
    /\ tasks_collection = EmptyBag
    /\ executions_collection = EmptyBag
    /\ connected = TRUE
    /\ saved = [id \in TaskIds |-> None]
    /\ lastOp = NoOp
    /\ repeat = FALSE
    /\ LifeStart
    /\ NotifierIdle

NextExec ==
    \/ \E e \in Executions : SaveExecution(e)
    \/ \E id \in {o[1] : o \in Owners}, n \in Limits : GetExecutions(id, n)
    \/ \E u \in Users, n \in Limits : GetExecutionsByUser(u, n)
    \/ Disconnect
    \/ Reconnect

SpecExec == InitExec /\ [][NextExec]_vars

\* The whole store, both collections together, over a database the chat
\* application writes too (the collections carry the names of its models): it may
\* have left a task and an execution whose status the scheduler does not know.
ForeignTaskDoc ==
    [StoredTaskDoc(TaskDoc(MkTask(1, "API", "u1", FALSE))) EXCEPT !.status = "paused"]

ForeignExecutionDoc ==
    [StoredExecutionDoc(ExecutionDoc(MkExecution(1, 1, "u1", MicrosPerMilli, FALSE)))
        EXCEPT !.status = "paused"]

\* the scheduler's own writes in this specification: the tasks of one user that
\* have not run, the runs of one task, all started in the same millisecond
StoreTasks == {t \in Tasks : t.type = "API" /\ t.user = Some("u1") /\ t.last_run = None}

StoreExecutions ==
    {e \in Executions :
        e.task_id = 1 /\ e.user = Some("u1") /\ e.start_time = MicrosPerMilli}

InitStore ==
    /\ tasks_collection \in {EmptyBag, One(ForeignTaskDoc)}
    /\ executions_collection \in {EmptyBag, One(ForeignExecutionDoc)}
    /\ connected = TRUE
    /\ saved = [id \in TaskIds |-> None]
    /\ lastOp = NoOp
    /\ repeat = FALSE
    /\ LifeStart
    /\ NotifierIdle

NextStore ==
    \/ \E task \in StoreTasks : SaveTask(task)
    \/ \E e \in StoreExecutions : SaveExecution(e)
    \/ GetAllTasks
    \/ \E u \in Users : GetTasksByUser(u)
    \/ \E id \in TaskIds, n \in Limits : GetExecutions(id, n)
    \/ \E id \in TaskIds : DeleteTask(id)
    \/ Close
    \/ Disconnect
    \/ Reconnect

SpecStore == InitStore /\ [][NextStore]_vars

\* the writers alone: a scheduler that saves and saves again
NextSave ==
    \/ \E task \in StoreTasks : SaveTask(task)
    \/ \E e \in StoreExecutions : SaveExecution(e)
    \/ Disconnect
    \/ Reconnect

SpecSave == InitStore /\ [][NextSave]_vars

\* callers that save at the same time: two users' records for each id, over a
\* database whose unique index _create_indexes did or did not manage to create
ConcTasks == {t \in Tasks : t.type = "API" /\ t.last_run = None}

InitConc ==
    /\ tasks_collection = EmptyBag
    /\ executions_collection = EmptyBag
    /\ connected = TRUE
    /\ saved = [id \in TaskIds |-> None]
    /\ lastOp = NoOp
    /\ repeat = FALSE
    /\ id_index \in BOOLEAN
    /\ writers = [c \in Callers |-> NoWriter]
    /\ client_closes = 0
    /\ NotifierIdle

NextConc ==
    \/ \E c \in Callers, task \in ConcTasks : CallSaveTask(c, task)
    \/ \E c \in Callers : ServerFilter(c)
    \/ \E c \in Callers : ServerInsert(c)
    \/ \E c \in Callers : ReturnSaveTask(c)

SpecConc == InitConc /\ [][NextConc]_vars

\* the notifier
InitNotify ==
    /\ tasks_collection = EmptyBag
    /\ executions_collection = EmptyBag
    /\ connected = TRUE
    /\ saved = [id \in TaskIds |-> None]
    /\ lastOp = NoOp
    /\ repeat = FALSE
    /\ LifeStart
    /\ NotifierIdle

NextNotify ==
    \/ \E op \in SendOps, u \in AddressArgs, c \in AddressArgs, id \in TaskIds,
          ok \in BOOLEAN :
          Send(op, u, c, id, ok)
    \/ \E status \in Statuses : PostAnswered(status)
    \/ \E exc \in Exceptions : PostFails(exc)
    \/ ReadBody
    \/ \E exc \in Exceptions : ReadBodyFails(exc)
    \/ Finish

SpecNotify == InitNotify /\ [][NextNotify]_vars

\* the notifier under its timeout: ClientTimeout(total=10) bounds the whole
\* request, the reading of the response included, so a call that is posting or
\* reading does not stay there: it is answered or the timeout raises
SpecNotifyLive ==
    /\ InitNotify
    /\ [][NextNotify]_vars
    /\ WF_vars((\E status \in Statuses : PostAnswered(status))
                  \/ (\E exc \in Exceptions : PostFails(exc)))
    /\ WF_vars(ReadBody \/ (\E exc \in Exceptions : ReadBodyFails(exc)))

-----------------------------------------------------------------------------
(* Properties *)

SortedNewestFirst(s) ==
    \A i, j \in DOMAIN s : i < j => s[i].start_time >= s[j].start_time

\* C1. Round trip: once save_task(T) has returned, and until the next save_task or
\* delete_task of T.id, get_task(T.id) returns a record equal to T in every field.
\* (saved[id] is T over exactly that interval.)
C1_RoundTrip ==
    (lastOp.op = "get_task" /\ saved[lastOp.arg] # None)
        => (lastOp.outcome = "return" /\ lastOp.ret = saved[lastOp.arg])

\* C2. Whole-record replace: a save_task (save_execution) of an id that is already
\* stored leaves, under that id, exactly the field values of the new record.
C2_WholeRecordReplace ==
    [][/\ \A task \in Tasks :
            (connected /\ StoredWithId(tasks_collection, task.id) # {} /\ SaveTask(task))
                => StoredWithId(tasks_collection', task.id) = {TaskDoc(task)}
       /\ \A e \in Executions :
            (connected /\ StoredWithId(executions_collection, e.id) # {} /\ SaveExecution(e))
                => StoredWithId(executions_collection', e.id) = {ExecutionDoc(e)}]_vars

\* at most one record per task id and per execution id
IdsUnique ==
    /\ \A id \in TaskIds : CopiesWithId(tasks_collection, id) <= 1
    /\ \A id \in ExecIds : CopiesWithId(executions_collection, id) <= 1

\* C3. Id uniqueness: each store holds at most one record per id in every reachable
\* state; and saving a running execution's id again with end_time set and status
\* completed leaves exactly one record of that id in get_executions(task_id),
\* carrying the second save's status and end_time.
C3_IdUniqueness ==
    /\ []IdsUnique
    /\ [][\A e \in Executions :
            (/\ e.status = "COMPLETED"
             /\ \E d \in StoredWithId(executions_collection, e.id) :
                   d.status = TaskStatusValue.RUNNING
             /\ connected
             /\ SaveExecution(e))
                => \A got \in GetExecutionsResult(e.task_id, DefaultLimit)' :
                     /\ Cardinality({i \in DOMAIN got.ret : got.ret[i].id = e.id}) = 1
                     /\ \A i \in DOMAIN got.ret :
                          got.ret[i].id = e.id
                            => /\ got.ret[i].status = e.status
                               /\ got.ret[i].end_time = e.end_time]_vars

\* C4. get_executions(task_id, limit=N) and get_executions_by_user(user, limit=N)
\* return at most N records, for every N, newest start_time first; two executions
\* e1, e2 of one task with e2 started later come back as [e2, e1].
C4_LimitAndOrder ==
    /\ lastOp.op \in {"get_executions", "get_executions_by_user"}
          => /\ Len(lastOp.ret) <= lastOp.arg[2]
             /\ SortedNewestFirst(lastOp.ret)
    /\ (lastOp.op = "get_executions" /\ lastOp.arg[2] >= 2)
          => \A e1, e2 \in BagToSet(executions_collection) :
                (/\ CopiesWithId(executions_collection, e1.id) = 1
                 /\ CopiesWithId(executions_collection, e2.id) = 1
                 /\ {d \in BagToSet(executions_collection) : d.task_id = lastOp.arg[1]}
                       = {e1, e2}
                 /\ e2.start_time > e1.start_time)
                    => lastOp.ret = <<DocToExecution(e2), DocToExecution(e1)>>

\* C5. A store operation that fails for want of connectivity fails with an error
\* that reaches its caller; it does not return "not found", an empty list or "no
\* record removed".
C5_ConnectivityErrorsRaise ==
    lastOp.error = "ConnectionFailure" => lastOp.outcome = "raise"

\* C6. Addressing precondition: a send_task_result / send_task_notification call
\* whose user_id or conversation_id is empty or absent returns False and issues no
\* network request, whatever its other arguments.
C6_NoRecipientNoRequest ==
    (/\ n_call.op \in SendOps
     /\ \/ n_call.user_id \in {None, Some("")}
        \/ n_call.conversation_id \in {None, Some("")})
        => /\ n_requests = 0
           /\ n_pc = "done"
           /\ n_result.kind = "return"
           /\ n_result.value = FALSE

\* a call with a user but an empty conversation_id has returned False unsent
C6_Witness ==
    /\ n_call.op = "send_task_result"
    /\ n_call.user_id = Some("id")
    /\ n_call.conversation_id = Some("")
    /\ n_result.kind = "return"
    /\ n_result.value = FALSE
    /\ n_requests = 0

\* C7. send_task_result / send_task_notification return True only when the
\* recipient answered the single POST with status 200; any other status, a timeout
\* or a transport error yields False.
C7_TrueOnlyOn200 ==
    n_pc = "done"
        => /\ n_result.kind = "return" /\ n_result.value = TRUE
                => n_response = Some(200) /\ n_requests = 1
           /\ n_response # Some(200) => n_result.value = FALSE

\* a 201 answer was turned into False
C7_Witness ==
    /\ n_pc = "done"
    /\ n_response = Some(201)
    /\ n_result.kind = "return"
    /\ n_result.value = FALSE
    /\ n_requests = 1

\* C8. The notifier never raises to its caller: connection refused, timeout,
\* non-200 status, a failure while reading the error body or mid-response all end
\* in the boolean False being returned.
C8_NeverRaises ==
    /\ n_result.kind # "raise"
    /\ (n_pc = "done" /\ n_result.cause # "status")
          => n_result.kind = "return" /\ n_result.value = FALSE

\* send_task_notification, which has no timeout clause of its own, met a timeout
\* while reading the body of a 500 answer and returned False
C8_Witness ==
    /\ n_call.op = "send_task_notification"
    /\ n_response = Some(500)
    /\ n_result.cause = "TimeoutError"
    /\ n_result.kind = "return"
    /\ n_result.value = FALSE

\* C9. User isolation: get_tasks_by_user(u) returns exactly the stored tasks whose
\* user is u, and get_executions_by_user(u, limit) only executions whose user is u.
C9_UserIsolation ==
    /\ lastOp.op = "get_tasks_by_user"
          => /\ \A i \in DOMAIN lastOp.ret : lastOp.ret[i].user = Some(lastOp.arg)
             /\ \A d \in BagToSet(tasks_collection) :
                    d.user = Some(lastOp.arg)
                        => \E i \in DOMAIN lastOp.ret : lastOp.ret[i].id = d.id
             /\ Len(lastOp.ret) =
                    Cardinality({d \in BagToSet(tasks_collection) : d.user = Some(lastOp.arg)})
    /\ lastOp.op = "get_executions_by_user"
          => \A i \in DOMAIN lastOp.ret : lastOp.ret[i].user = Some(lastOp.arg[1])

\* C10. delete_task of an id that is not stored returns False, does not raise and
\* leaves the task store and the execution store as they were; and a delete_task
\* the server carried out leaves no record of the id, so that the same call made
\* again is that case: twice in a row leaves what once leaves.
C10_DeleteAbsentIsNoOp ==
    [][\A id \in TaskIds :
          DeleteTask(id)
              => /\ lastOp'.outcome = "return"
                 /\ UNCHANGED executions_collection
                 /\ StoredWithId(tasks_collection, id) = {}
                       => /\ lastOp'.ret = FALSE
                          /\ UNCHANGED tasks_collection
                 /\ connected => StoredWithId(tasks_collection', id) = {}]_vars

\* the server answered a delete_task of an id it does not hold, while it holds
\* another task and an execution
C10_Witness ==
    /\ lastOp.op = "delete_task"
    /\ lastOp.error = "none"
    /\ lastOp.ret = FALSE
    /\ StoredWithId(tasks_collection, lastOp.arg) = {}
    /\ tasks_collection # EmptyBag
    /\ executions_collection # EmptyBag

\* C11. delete_task(id) returns True exactly when a task of that id was stored just
\* before the call; once it has returned, and until the next save_task of the id,
\* get_task(id) returns None and get_all_tasks holds no task of the id.
C11_DeleteReportsAndRemoves ==
    /\ [][\A id \in TaskIds :
            (lastOp'.op = "delete_task" /\ DeleteTask(id))
                => /\ lastOp'.ret = (StoredWithId(tasks_collection, id) # {})
                   /\ \A g \in GetTaskResult(id)' : g.ret = None
                   /\ \A g \in GetAllTasksResult' :
                         \A i \in DOMAIN g.ret : g.ret[i].id # id]_vars
    /\ [](lastOp.op = "get_task" /\ saved[lastOp.arg] = None => lastOp.ret = None)

\* C12. save_task (save_execution) called twice in a row with an identical record
\* leaves both collections as the first call left them.
C12_SaveIdempotent ==
    [][/\ \A task \in Tasks :
            (lastOp'.op = "save_task" /\ SaveTask(task) /\ repeat')
                => UNCHANGED <<tasks_collection, executions_collection>>
       /\ \A e \in Executions :
            (lastOp'.op = "save_execution" /\ SaveExecution(e) /\ repeat')
                => UNCHANGED <<tasks_collection, executions_collection>>]_vars

\* a save_execution repeated the save_execution before it and returned; the id is
\* stored once, beside a task
C12_Witness ==
    /\ repeat
    /\ lastOp.op = "save_execution"
    /\ lastOp.outcome = "return"
    /\ CopiesWithId(executions_collection, lastOp.arg) = 1
    /\ tasks_collection # EmptyBag

\* two callers whose save_task calls ran at the same time and are both over
Raced(a, b) ==
    /\ a # b
    /\ writers[a].pc \in {"returned", "raised"}
    /\ writers[b].pc \in {"returned", "raised"}
    /\ b \in writers[a].overlaps
    /\ a \in writers[b].overlaps

\* C13. Two save_task calls that run at the same time for one id both complete and
\* leave one record of the id, equal to the record one of the two passed (no
\* mixture, not two records); a save_task that completes has its record stored, and
\* no write of one call touches the record of another id.
C13_ConcurrentSaves ==
    /\ [](\A a, b \in Callers :
            (Raced(a, b) /\ writers[a].task[1].id = writers[b].task[1].id)
                => /\ writers[a].pc = "returned"
                   /\ writers[b].pc = "returned"
                   /\ CopiesWithId(tasks_collection, writers[a].task[1].id) = 1
                   /\ StoredWithId(tasks_collection, writers[a].task[1].id)
                        \subseteq {StoredTaskDoc(TaskDoc(writers[a].task[1])),
                                   StoredTaskDoc(TaskDoc(writers[b].task[1]))})
    /\ [][\A c \in Callers :
            (writers[c].pc \in {"sent", "insert"} /\ (ServerFilter(c) \/ ServerInsert(c)))
                => /\ writers'[c].pc = "returned"
                      => StoredTaskDoc(TaskDoc(writers[c].task[1]))
                            \in StoredWithId(tasks_collection', writers[c].task[1].id)
                   /\ \A id \in TaskIds \ {writers[c].task[1].id} :
                         MatchingBag(tasks_collection', "id", id)
                            = MatchingBag(tasks_collection, "id", id)]_vars

\* C14. Timeout without retry: a send_task_result / send_task_notification call
\* issues at most one request; whatever the recipient does, a call that has posted
\* comes to its return; and a call the timeout ended returned False after that one
\* request.
C14_OneRequestThenReturn ==
    /\ [](n_requests <= 1)
    /\ []((n_pc = "done" /\ n_result.cause = "TimeoutError")
             => /\ n_result.kind = "return"
                /\ n_result.value = FALSE
                /\ n_requests = 1)
    /\ (n_pc \in {"post", "read_body"}) ~> (n_pc = "done")

\* send_task_result posted once, the recipient never answered, the timeout expired
\* and the call returned False
C14_Witness ==
    /\ n_pc = "done"
    /\ n_call.op = "send_task_result"
    /\ n_response = None
    /\ n_requests = 1
    /\ n_result = ReturnOf(FALSE, "TimeoutError")

\* C15. Tie-break determinism: get_executions(task_id, limit) called again, with
\* the stored executions unchanged since the call before, returns the sequence that
\* call returned: the same records in the same order, the same ones cut off.
C15_TieBreakDeterminism ==
    [][\A id \in TaskIds, n \in Limits :
          (/\ lastOp.op = "get_executions" /\ lastOp.error = "none"
           /\ lastOp.arg = <<id, n>>
           /\ lastOp'.op = "get_executions" /\ lastOp'.error = "none"
           /\ GetExecutions(id, n))
              => lastOp'.ret = lastOp.ret]_vars

\* C16. updated_at advances on every write: a save_task that returns for an id
\* already stored leaves a stored updated_at strictly later than the one stored
\* before it.
C16_UpdatedAtAdvances ==
    [][\A task \in Tasks :
          (lastOp'.op = "save_task" /\ lastOp'.outcome = "return" /\ SaveTask(task))
              => \A before \in StoredWithId(tasks_collection, task.id),
                    after \in StoredWithId(tasks_collection', task.id) :
                    after.updated_at > before.updated_at]_vars

\* C17. A stored record with an unknown type or status string fails only its own
\* read: get_all_tasks, get_tasks_by_user and get_executions (without a limit) that
\* reached the server return every valid record the query matches, whatever else is
\* stored beside them.
C17_MalformedFailsOnlyItself ==
    /\ (lastOp.op = "get_all_tasks" /\ lastOp.error # "ConnectionFailure")
          => \A d \in BagToSet(tasks_collection) :
                ~DocToTaskRaises(d)
                    => \E i \in DOMAIN lastOp.ret : lastOp.ret[i] = DocToTask(d)
    /\ (lastOp.op = "get_tasks_by_user" /\ lastOp.error # "ConnectionFailure")
          => \A d \in Matching(tasks_collection, "user", Some(lastOp.arg)) :
                ~DocToTaskRaises(d)
                    => \E i \in DOMAIN lastOp.ret : lastOp.ret[i] = DocToTask(d)
    /\ (lastOp.op = "get_executions" /\ lastOp.error # "ConnectionFailure"
            /\ lastOp.arg[2] = 0)
          => \A d \in Matching(executions_collection, "task_id", lastOp.arg[1]) :
                ~DocToExecutionRaises(d)
                    => \E i \in DOMAIN lastOp.ret : lastOp.ret[i] = DocToExecution(d)

\* C18. Every notifier outcome is a boolean and a log entry: a call that returned
\* False (missing user_id or conversation_id, non-200 status, timeout, transport
\* error) has emitted a log record before returning, and so has a call that
\* returned True.
C18_EveryReturnLogged ==
    (n_pc = "done" /\ n_result.kind = "return") => Len(n_logs) >= 1

\* C19. The storage connection is closed exactly once: whatever calls are made on
\* the object, close() called more than once among them, self.client.close() is
\* performed at most one time (every close() call performs it or finds it done).
C19_ClosedOnce ==
    /\ client_closes <= 1
    /\ lastOp.op = "close" => client_closes >= 1

\* C20. Executions outlive their task: delete_task(id) leaves the execution store
\* unchanged, so the executions get_executions(id, limit) returned before the delete
\* are returned by the same call after it; and no operation of the store removes an
\* execution record.
C20_ExecutionsOutliveTask ==
    /\ [][\A id \in TaskIds :
            (lastOp'.op = "delete_task" /\ DeleteTask(id))
                => /\ UNCHANGED executions_collection
                   /\ \A n \in Limits :
                         (lastOp.op = "get_executions" /\ lastOp.arg = <<id, n>>)
                            => \A after \in GetExecutionsResult(id, n)' :
                                  \A i \in DOMAIN lastOp.ret :
                                     \E j \in DOMAIN after.ret :
                                        after.ret[j] = lastOp.ret[i]]_vars
    /\ [][\A id \in ExecIds :
            CopiesWithId(executions_collection', id)
                >= CopiesWithId(executions_collection, id)]_vars

====
